---- MODULE Spec2Model ----
(***************************************************************************)
(* kv-cal-agent: the REPL (runREPL), the orchestration graph (workflow:    *)
(* agent / tools / conflict_detector), the tool catalog's event, attendee  *)
(* and reminder tools and the conflict-detection subgraph, over the        *)
(* events, attendees and reminders tables.                                 *)
(*                                                                         *)
(* Instants are small integers.  An optional value (undefined / null in    *)
(* the source) is a sequence of length 0 or 1.  A message's text is a      *)
(* record: the fixed phrase the code emits, and the events it renders.     *)
(* Titles, descriptions and locations influence no branch but the          *)
(* " at <location>" suffix of one rendered line, and are left out.         *)
(***************************************************************************)
EXTENDS Integers, Sequences, FiniteSets, TLC

\* ------------------------------------------------------------- bounds
MaxTime == 2        \* instants are 1..MaxTime
MaxEvents == 1      \* rows the events table may hold when the REPL starts
MaxTurns == 2       \* lines the user submits
MaxSteps == 2       \* tool-requesting replies of the model in one run
MaxCalls == 2       \* tool calls in one assistant message
MaxToolCalls == 2   \* tool calls requested in the whole session
MaxRows == 2        \* rows of the events table under SpecCheck
MaxRefs == 1        \* attendees, and reminders, stored when SpecRefs starts
MaxOps == 2         \* tool operations the model requests under SpecRefs

Times == 1..MaxTime
RunIds == 1..MaxTurns

VARIABLES
    events,               \* the rows of the events table (db/schema.ts, events)
    nextId,               \* the serial sequence behind events.id
    conversationHistory,  \* runREPL's conversationHistory (agent.ts)
    runs,                 \* per submitted line: the app.invoke it started
    faults,               \* the awaited external calls that have failed: the
                          \* model call of a run, or the statement of a tool call
    attendees,            \* the rows of the attendees table (db/schema.ts)
    nextAttendeeId,       \* the serial sequence behind attendees.id
    reminders,            \* the rows of the reminders table (db/schema.ts)
    nextReminderId        \* the serial sequence behind reminders.id

\* The tables that refer to events, and their sequences.
related == <<attendees, nextAttendeeId, reminders, nextReminderId>>

vars == <<events, nextId, conversationHistory, runs, faults, related>>

\* ------------------------------------------------------------ options
NULL == <<>>
Some(x) == <<x>>
\* JavaScript truthiness of an optional number: undefined and 0 are falsy.
Truthy(opt) == opt # NULL /\ opt[1] # 0

\* ----------------------------------------------------------- messages
NoContent == [text |-> "", count |-> 0, events |-> <<>>]
Content(text, evs) == [text |-> text, count |-> 0, events |-> evs]

HumanMessage(t) ==
    [role |-> "user", turn |-> t, tool_calls |-> <<>>, name |-> "", content |-> NoContent]
AIMessage(t, calls) ==
    [role |-> "ai", turn |-> t, tool_calls |-> calls, name |-> "", content |-> NoContent]
ToolMessage(t, call, content) ==
    [role |-> "tool", turn |-> t, tool_calls |-> <<>>, name |-> call.name, content |-> content]

\* 'tool_calls' in m && Array.isArray(m.tool_calls): only an AIMessage carries
\* the field; the records here carry it always, for uniformity, and this
\* operator is the field test.
HasToolCallsField(m) == m.role = "ai"

Last(s) == s[Len(s)]

\* --------------------------------------------------- conflict subgraph
Event(id, startTime, endTime) == [id |-> id, startTime |-> startTime, endTime |-> endTime]

\* conditions with strict comparisons (gt, lt): touching ranges do not match.
conditions_strict(E, startTime, endTime, excludeEventId) ==
    /\ E.endTime > startTime
    /\ E.startTime < endTime
    /\ (Truthy(excludeEventId) => E.id # excludeEventId[1])

\* conditions without the ne(events.id, excludeEventId) condition.
conditions_noExclusion(E, startTime, endTime, excludeEventId) ==
    /\ E.endTime >= startTime
    /\ E.startTime <= endTime

\* The where clause: gte(events.endTime, startTime), lte(events.startTime,
\* endTime) and, if (excludeEventId), ne(events.id, excludeEventId).
conditions(E, startTime, endTime, excludeEventId) ==
    /\ E.endTime >= startTime
    /\ E.startTime <= endTime
    /\ (Truthy(excludeEventId) => E.id # excludeEventId[1])

\* db.select(...).from(events).where(and(...conditions)), as a set of rows.
conflictingEvents(store, startTime, endTime, excludeEventId) ==
    {E \in store : conditions(E, startTime, endTime, excludeEventId)}

\* The orders in which the database may return a set of rows (no ORDER BY).
RowOrders(S) ==
    {q \in [1..Cardinality(S) -> S] : \A i, j \in 1..Cardinality(S) : i # j => q[i] # q[j]}

\* A message that counts every row but lists the first only.
renderMessage_firstOnly(rows) ==
    IF Len(rows) > 0
    THEN [text |-> "Found conflicting event(s)", count |-> Len(rows), events |-> <<rows[1]>>]
    ELSE [text |-> "No conflicts found", count |-> 0, events |-> <<>>]

\* The message built from the rows returned, in the order returned.
renderMessage(rows) ==
    IF Len(rows) > 0
    THEN [text |-> "Found conflicting event(s)", count |-> Len(rows), events |-> rows]
    ELSE [text |-> "No conflicts found", count |-> 0, events |-> <<>>]

\* An asynchronous function is the set of its outcomes: it returns a value or
\* throws (threw), here when the database statement fails.
Returned(v) == [threw |-> FALSE, value |-> v]
Thrown == [threw |-> TRUE,
           value |-> [conflicts |-> <<>>, hasConflicts |-> FALSE, message |-> NoContent]]

\* The subgraph's node: select, then the update {conflicts, hasConflicts, message}.
checkConflicts(store, startTime, endTime, excludeEventId) ==
    {Returned([conflicts |-> rows, hasConflicts |-> Len(rows) > 0,
               message |-> renderMessage(rows)]) :
        rows \in RowOrders(conflictingEvents(store, startTime, endTime, excludeEventId))}
    \cup {Thrown}

\* conflictDetectionGraph.invoke: __start__ -> check -> END.
conflictDetectionGraph(store, startTime, endTime, excludeEventId) ==
    checkConflicts(store, startTime, endTime, excludeEventId)

detectConflicts(store, startTime, endTime, excludeEventId) ==
    conflictDetectionGraph(store, startTime, endTime, excludeEventId)

\* --------------------------------------------------------- tool catalog
\* A tool call: the tool's name and its arguments, each optional.
ToolCall(name, startTime, endTime, eventId, excludeEventId) ==
    [name |-> name,
     args |-> [startTime |-> startTime, endTime |-> endTime,
               eventId |-> eventId, excludeEventId |-> excludeEventId,
               attendeeId |-> NULL, reminderId |-> NULL]]

\* A call of an attendee or reminder tool.
RelatedCall(name, eventId, attendeeId, reminderId) ==
    [name |-> name,
     args |-> [startTime |-> NULL, endTime |-> NULL,
               eventId |-> eventId, excludeEventId |-> NULL,
               attendeeId |-> attendeeId, reminderId |-> reminderId]]

\* What a tool invocation leaves behind: the text it returns and the table;
\* failed is whether its try block threw (the database statement failed, or a
\* value could not be sent to it) and its catch block ran.
Outcome(content, store, nid, failed) ==
    [content |-> content, events |-> store, nextId |-> nid, failed |-> failed]

\* check_event_conflicts whose catch block reports that nothing conflicts.
checkEventConflicts_swallow(args, store, nid) ==
    {Outcome(IF r.threw THEN renderMessage(<<>>) ELSE r.value.message, store, nid, r.threw) :
        r \in detectConflicts(store, args.startTime[1], args.endTime[1], args.excludeEventId)}

\* check_event_conflicts that deletes the conflicting events it reports.
checkEventConflicts_deletes(args, store, nid) ==
    {Outcome(IF r.threw THEN Content("Error checking conflicts", <<>>) ELSE r.value.message,
             IF r.threw THEN store
             ELSE store \ {r.value.conflicts[i] : i \in 1..Len(r.value.conflicts)},
             nid, r.threw) :
        r \in detectConflicts(store, args.startTime[1], args.endTime[1], args.excludeEventId)}

\* check_event_conflicts: the message of detectConflicts, or the error text
\* of the catch block.
checkEventConflicts(args, store, nid) ==
    {Outcome(IF r.threw THEN Content("Error checking conflicts", <<>>) ELSE r.value.message,
             store, nid, r.threw) :
        r \in detectConflicts(store, args.startTime[1], args.endTime[1], args.excludeEventId)}

\* create_event whose catch block returns nothing.
createEvent_noReturn(args, store, nid) ==
    LET event == Event(nid, args.startTime[1], args.endTime[1])
    IN  { Outcome(Content("Event created", <<event>>), store \cup {event}, nid + 1, FALSE),
          Outcome(NoContent, store, nid, TRUE) }

\* create_event: insert ... returning, with the next serial id.
createEvent(args, store, nid) ==
    LET event == Event(nid, args.startTime[1], args.endTime[1])
    IN  { Outcome(Content("Event created", <<event>>), store \cup {event}, nid + 1, FALSE),
          Outcome(Content("Error creating event", <<>>), store, nid, TRUE) }

\* update_event: set the fields given, where id = eventId, returning.
updateEvent(args, store, nid) ==
    LET found == {E \in store : E.id = args.eventId[1]}
        set(E) == Event(E.id,
                        IF args.startTime # NULL THEN args.startTime[1] ELSE E.startTime,
                        IF args.endTime # NULL THEN args.endTime[1] ELSE E.endTime)
    IN  { IF found = {}
          THEN Outcome(Content("Error: Failed to update event or event not found", <<>>),
                       store, nid, FALSE)
          ELSE LET updated == set(CHOOSE E \in found : TRUE)
               IN  Outcome(Content("Event updated", <<updated>>),
                           (store \ found) \cup {updated}, nid, FALSE),
          Outcome(Content("Error updating event", <<>>), store, nid, TRUE) }

\* delete_event: delete where id = eventId; success is reported either way.
deleteEvent(args, store, nid) ==
    { Outcome(Content("Event deleted successfully", <<>>),
              {E \in store : E.id # args.eventId[1]}, nid, FALSE),
      Outcome(Content("Error deleting event", <<>>), store, nid, TRUE) }

\* allTools, by name (the tools that read or write the events table).
invokeTool(call, store, nid) ==
    CASE call.name = "check_event_conflicts" -> checkEventConflicts(call.args, store, nid)
      [] call.name = "create_event" -> createEvent(call.args, store, nid)
      [] call.name = "update_event" -> updateEvent(call.args, store, nid)
      [] call.name = "delete_event" -> deleteEvent(call.args, store, nid)

\* ------------------------------------------- attendees and reminders
\* Of an attendee and a reminder, the columns that decide what a statement
\* does: the key, the reference to the event, and the flag a tool sets.
\* Names, e-mail, status, notes and reminder times are left out.
Attendee(id, eventId) == [id |-> id, eventId |-> eventId]
Reminder(id, eventId, sent) == [id |-> id, eventId |-> eventId, sent |-> sent]

\* The database a statement runs against.
Database ==
    [events |-> events, nextId |-> nextId,
     attendees |-> attendees, nextAttendeeId |-> nextAttendeeId,
     reminders |-> reminders, nextReminderId |-> nextReminderId]

\* What a tool invocation leaves behind, over the whole database.
Result(content, db, failed) == [content |-> content, db |-> db, failed |-> failed]

EventExists(db, id) == \E E \in db.events : E.id = id

\* references(() => events.id, { onDelete: 'cascade' }): the rows of an
\* event that is deleted are deleted with it.
onDeleteCascade(db) ==
    [db EXCEPT !.attendees = {a \in @ : EventExists(db, a.eventId)},
               !.reminders = {m \in @ : EventExists(db, m.eventId)}]

\* add_attendee on a column event_id that does not reference events.id.
addAttendee_noReference(args, db) ==
    { Result(Content("Attendee added", <<>>),
             [db EXCEPT !.attendees = @ \cup {Attendee(db.nextAttendeeId, args.eventId[1])},
                        !.nextAttendeeId = @ + 1], FALSE),
      Result(Content("Error adding attendee", <<>>), db, TRUE) }

\* add_attendee: insert ... returning, with the next serial id.  The insert
\* violates the foreign key when no event has the id, and then only the
\* sequence has advanced.
addAttendee(args, db) ==
    { IF EventExists(db, args.eventId[1])
      THEN Result(Content("Attendee added", <<>>),
                  [db EXCEPT !.attendees = @ \cup {Attendee(db.nextAttendeeId, args.eventId[1])},
                             !.nextAttendeeId = @ + 1], FALSE)
      ELSE Result(Content("Error adding attendee", <<>>),
                  [db EXCEPT !.nextAttendeeId = @ + 1], TRUE),
      Result(Content("Error adding attendee", <<>>), db, TRUE) }

\* remove_attendee: delete where id = attendeeId; success is reported either way.
removeAttendee(args, db) ==
    { Result(Content("Attendee removed successfully", <<>>),
             [db EXCEPT !.attendees = {a \in @ : a.id # args.attendeeId[1]}], FALSE),
      Result(Content("Error removing attendee", <<>>), db, TRUE) }

\* create_reminder: insert ... returning, as add_attendee.
createReminder(args, db) ==
    { IF EventExists(db, args.eventId[1])
      THEN Result(Content("Reminder created", <<>>),
                  [db EXCEPT !.reminders = @ \cup {Reminder(db.nextReminderId, args.eventId[1], FALSE)},
                             !.nextReminderId = @ + 1], FALSE)
      ELSE Result(Content("Error creating reminder", <<>>),
                  [db EXCEPT !.nextReminderId = @ + 1], TRUE),
      Result(Content("Error creating reminder", <<>>), db, TRUE) }

\* mark_reminder_sent: set sent = true where id = reminderId; success is
\* reported either way.
markReminderSent(args, db) ==
    { Result(Content("Reminder marked as sent", <<>>),
             [db EXCEPT !.reminders =
                 {IF m.id = args.reminderId[1] THEN [m EXCEPT !.sent = TRUE] ELSE m : m \in @}],
             FALSE),
      Result(Content("Error marking reminder as sent", <<>>), db, TRUE) }

\* allTools, by name, over the whole database: a statement of an event tool
\* changes the events table, and the foreign keys' cascade follows it.
allTools(call, db) ==
    CASE call.name = "add_attendee" -> addAttendee(call.args, db)
      [] call.name = "remove_attendee" -> removeAttendee(call.args, db)
      [] call.name = "create_reminder" -> createReminder(call.args, db)
      [] call.name = "mark_reminder_sent" -> markReminderSent(call.args, db)
      [] OTHER ->
           {Result(o.content,
                   onDeleteCascade([db EXCEPT !.events = o.events, !.nextId = o.nextId]),
                   o.failed) :
               o \in invokeTool(call, db.events, db.nextId)}

\* The calls the model may request: the arguments each schema requires.
EventIds == 1..MaxEvents
OptTimes == {NULL} \cup {Some(t) : t \in Times}
ToolCalls ==
    {ToolCall("check_event_conflicts", Some(s), Some(e), NULL, x) :
        s \in Times, e \in Times, x \in {NULL} \cup {Some(i) : i \in 0..MaxEvents}}
    \cup {ToolCall("create_event", Some(s), Some(e), NULL, NULL) : s \in Times, e \in Times}
    \cup {ToolCall("update_event", s, e, Some(i), NULL) :
            s \in OptTimes, e \in OptTimes, i \in EventIds}
    \cup {ToolCall("delete_event", NULL, NULL, Some(i), NULL) : i \in EventIds}

\* ------------------------------------------------ orchestration graph
\* One app.invoke: the node about to run, and the AgentState channels.  base
\* is the length of the input transcript; results holds what the tool calls
\* of the tools node have returned so far.
AgentState(node, messages, base) ==
    [node |-> node, messages |-> messages, base |-> base,
     pendingEventCheck |-> NULL, conflictCheckResult |-> NULL, results |-> <<>>]

NotStarted == AgentState("idle", <<>>, 0)

\* shouldContinue with the length test off by one.
shouldContinue_offByOne(state) ==
    LET lastMessage == Last(state.messages)
    IN  IF HasToolCallsField(lastMessage) /\ Len(lastMessage.tool_calls) > 1
        THEN "tools"
        ELSE "END"

\* The router after agent: 'tools' when the last message carries tool calls.
shouldContinue(state) ==
    LET lastMessage == Last(state.messages)
    IN  IF HasToolCallsField(lastMessage) /\ Len(lastMessage.tool_calls) > 0
        THEN "tools"
        ELSE "END"

\* The router after tools: looks for a check_event_conflicts call in the
\* last message of the state it is given.
shouldCheckConflicts(state) ==
    LET lastMessage == Last(state.messages)
    IN  IF /\ HasToolCallsField(lastMessage)
           /\ \E k \in 1..Len(lastMessage.tool_calls) :
                 lastMessage.tool_calls[k].name = "check_event_conflicts"
        THEN "conflict_detector"
        ELSE "continue"

\* addConditionalEdges('tools', shouldCheckConflicts, {...}).
toolsEdge(state) ==
    IF shouldCheckConflicts(state) = "conflict_detector" THEN "conflict_detector" ELSE "agent"

\* The conflict_detector node (the graph's checkConflicts): the outcomes of
\* one execution, each the state after the node's update is applied.
conflict_detector(state, store) ==
    IF state.pendingEventCheck = NULL
    THEN {Returned([state EXCEPT !.conflictCheckResult = NULL])}
    ELSE LET p == state.pendingEventCheck[1]
         IN  {IF r.threw
              THEN [threw |-> TRUE, value |-> state]
              ELSE Returned([state EXCEPT !.conflictCheckResult = Some(r.value.message),
                                          !.pendingEventCheck = NULL]) :
                 r \in conflictDetectionGraph(store, p.startTime, p.endTime, p.excludeEventId)}

\* ------------------------------------------------------------- bounds
RECURSIVE CallsRequested(_, _)
CallsRequested(messages, from) ==
    IF from > Len(messages) THEN 0
    ELSE Len(messages[from].tool_calls) + CallsRequested(messages, from + 1)

RECURSIVE SessionCalls(_)
SessionCalls(n) ==
    IF n = 0 THEN 0
    ELSE CallsRequested(runs[n].messages, runs[n].base + 1) + SessionCalls(n - 1)

StepsTaken(r) ==
    Cardinality({k \in (runs[r].base + 1)..Len(runs[r].messages) :
                    Len(runs[r].messages[k].tool_calls) > 0})

\* The tool-call lists the model may still return to run r.
Requests(r) ==
    LET most == IF StepsTaken(r) >= MaxSteps THEN 0
                ELSE IF MaxToolCalls - SessionCalls(MaxTurns) < MaxCalls
                     THEN MaxToolCalls - SessionCalls(MaxTurns)
                     ELSE MaxCalls
    IN  UNION {[1..n -> ToolCalls] : n \in 0..most}

\* ---------------------------------------------------------------- Init
\* No attendee and no reminder is stored, and none ever was.
NoRelated ==
    /\ attendees = {}
    /\ nextAttendeeId = 1
    /\ reminders = {}
    /\ nextReminderId = 1

\* The table is persistent: the REPL starts on whatever rows earlier
\* sessions left, with distinct ids below the serial sequence.
Init ==
    /\ \E ids \in SUBSET EventIds :
         \E when \in [ids -> Times \X Times] :
            events = {Event(i, when[i][1], when[i][2]) : i \in ids}
    /\ nextId = MaxEvents + 1
    /\ conversationHistory = <<>>
    /\ runs = [r \in RunIds |-> NotStarted]
    /\ faults = {}
    /\ NoRelated

\* ------------------------------------------------------------- actions
\* rl.on('line'): a non-empty line that is not exit/quit starts app.invoke
\* on the history so far plus the user's message.  Lines are accepted
\* whether or not an earlier invocation has resolved.  An empty line changes
\* nothing, and exit/quit ends the process and with it the behaviour.
Line(t) ==
    /\ runs[t].node = "idle"
    /\ \A u \in 1..(t - 1) : runs[u].node # "idle"
    /\ runs' = [runs EXCEPT ![t] =
                  AgentState("agent", conversationHistory \o <<HumanMessage(t)>>,
                             Len(conversationHistory) + 1)]
    /\ UNCHANGED <<events, nextId, conversationHistory, faults, related>>

\* callModel whose update replaces the messages channel (no reducer).
callModel_replace(state, response) ==
    LET after == [state EXCEPT !.messages = <<response>>]
    IN  IF shouldContinue(after) = "tools"
        THEN [after EXCEPT !.node = "tools",
                           !.results = [k \in 1..Len(response.tool_calls) |-> NULL]]
        ELSE [after EXCEPT !.node = "END"]

\* The state after callModel's update {messages: [response]} and the router.
callModel(state, response) ==
    LET after == [state EXCEPT !.messages = @ \o <<response>>]
    IN  IF shouldContinue(after) = "tools"
        THEN [after EXCEPT !.node = "tools",
                           !.results = [k \in 1..Len(response.tool_calls) |-> NULL]]
        ELSE [after EXCEPT !.node = "END"]

\* The supersteps a run has executed: its agent steps (one assistant message
\* each) and its completed tools steps.
AgentSteps(state) ==
    Cardinality({k \in (state.base + 1)..Len(state.messages) :
                    state.messages[k].role = "ai"})
ToolSteps(state) ==
    Cardinality({k \in (state.base + 1)..(Len(state.messages) - 1) :
                    state.messages[k].role = "ai" /\ state.messages[k + 1].role = "tool"})

\* app.invoke(input) passes no config, so the graph runtime applies its
\* default recursion limit.
recursionLimit == 25

\* A run that is out of steps two supersteps later than the limit.
outOfSteps_late(state) == AgentSteps(state) + ToolSteps(state) >= recursionLimit + 2

\* The runtime's loop is out of steps once the run has executed
\* recursionLimit supersteps.
outOfSteps(state) == AgentSteps(state) + ToolSteps(state) >= recursionLimit

\* modelWithTools.invoke resolves with a message carrying calls.  When the
\* graph ends, app.invoke resolves and the line handler pushes
\* result.messages onto the history.  When the loop is out of steps,
\* app.invoke rejects (GraphRecursionError) and the line handler's catch
\* reports it; a reply that ends the graph on the very step of the limit
\* either resolves or rejects, depending on the release of the runtime.
Reply(r, calls) ==
    LET replied == callModel(runs[r], AIMessage(r, calls))
        ends == IF ~outOfSteps(replied)
                THEN {replied}
                ELSE {[replied EXCEPT !.node = "out_of_steps", !.results = <<>>]}
                        \cup (IF replied.node = "END" THEN {replied} ELSE {})
    IN  \E after \in ends :
           /\ runs' = [runs EXCEPT ![r] = after]
           /\ conversationHistory' =
                IF after.node = "END"
                THEN conversationHistory \o after.messages
                ELSE conversationHistory

ModelReplies(r) ==
    /\ runs[r].node = "agent"
    /\ \E calls \in Requests(r) : Reply(r, calls)
    /\ UNCHANGED <<events, nextId, faults, related>>

\* callModel that catches the rejection and stays at agent to call again.
callModelThrows_retry(state) == state

\* modelWithTools.invoke rejects: nothing in callModel or the graph catches
\* it, app.invoke rejects, and the line handler's catch reports the error.
callModelThrows(state) == [state EXCEPT !.node = "failed"]

\* A failed external call: the run, which call, and the transcript position
\* its message would have taken.
Fault(r, what, at) == [run |-> r, what |-> what, at |-> at]

ModelFails(r) ==
    /\ runs[r].node = "agent"
    /\ runs' = [runs EXCEPT ![r] = callModelThrows(runs[r])]
    /\ faults' = faults \cup {Fault(r, "model", Len(runs[r].messages) + 1)}
    /\ UNCHANGED <<events, nextId, conversationHistory, related>>

\* A tools node that returns the message of the first call only.
toolsDone_firstOnly(state, r) ==
    LET calls == Last(state.messages).tool_calls
        after == [state EXCEPT
                    !.messages = @ \o <<ToolMessage(r, calls[1], state.results[1][1])>>,
                    !.results = <<>>]
    IN  [after EXCEPT !.node = toolsEdge(after)]

\* A tools node that returns no message for the last call.
toolsDone_dropLast(state, r) ==
    LET calls == Last(state.messages).tool_calls
        after == [state EXCEPT
                    !.messages = @ \o [k \in 1..(Len(calls) - 1) |->
                                         ToolMessage(r, calls[k], state.results[k][1])],
                    !.results = <<>>]
    IN  [after EXCEPT !.node = toolsEdge(after)]

\* The state after the tools node's update (one ToolMessage per call, in
\* call order) and its conditional edge.
toolsDone(state, r) ==
    LET calls == Last(state.messages).tool_calls
        after == [state EXCEPT
                    !.messages = @ \o [k \in 1..Len(calls) |->
                                         ToolMessage(r, calls[k], state.results[k][1])],
                    !.results = <<>>]
    IN  [after EXCEPT !.node = toolsEdge(after)]

\* ToolNode runs the calls of the last assistant message concurrently; each
\* is one statement against the database, and they complete in any order.
ToolReturns(r, k) ==
    /\ runs[r].node = "tools"
    /\ k \in 1..Len(runs[r].results)
    /\ runs[r].results[k] = NULL
    /\ \E o \in allTools(Last(runs[r].messages).tool_calls[k], Database) :
         LET got == [runs[r] EXCEPT !.results[k] = Some(o.content)]
         IN  /\ events' = o.db.events
             /\ nextId' = o.db.nextId
             /\ attendees' = o.db.attendees
             /\ nextAttendeeId' = o.db.nextAttendeeId
             /\ reminders' = o.db.reminders
             /\ nextReminderId' = o.db.nextReminderId
             /\ runs' = [runs EXCEPT ![r] =
                           IF \A j \in 1..Len(got.results) : got.results[j] # NULL
                           THEN toolsDone(got, r)
                           ELSE got]
             /\ faults' = IF o.failed
                          THEN faults \cup {Fault(r, "tool", Len(runs[r].messages) + k)}
                          ELSE faults
    /\ UNCHANGED conversationHistory

\* The conflict_detector node runs and its edge leads back to agent; a
\* failure of the select rejects app.invoke.  No step of Next leads to this
\* node (see C1), so the action is not a disjunct of Next.
ConflictDetector(r) ==
    /\ runs[r].node = "conflict_detector"
    /\ \E o \in conflict_detector(runs[r], events) :
         runs' = [runs EXCEPT ![r] =
                    IF o.threw THEN [o.value EXCEPT !.node = "failed"]
                    ELSE [o.value EXCEPT !.node = "agent"]]
    /\ UNCHANGED <<events, nextId, conversationHistory, faults, related>>

Next ==
    \/ \E t \in RunIds : Line(t)
    \/ \E r \in RunIds : ModelReplies(r)
    \/ \E r \in RunIds : ModelFails(r)
    \/ \E r \in RunIds : \E k \in 1..MaxCalls : ToolReturns(r, k)

Spec == Init /\ [][Next]_vars

\* ------------------------------------------- the conflict check alone
\* A check_event_conflicts call, requested n times over in one reply of the
\* model and dispatched by the first line's run, over any table of up to
\* MaxRows rows: the state after Line(1) and that reply.
CheckCalls ==
    {ToolCall("check_event_conflicts", Some(s), Some(e), NULL, x) :
        s \in Times, e \in Times, x \in {NULL} \cup {Some(i) : i \in 0..MaxRows}}

ChecksDispatched(n) ==
    /\ \E ids \in SUBSET (1..MaxRows) :
         \E when \in [ids -> Times \X Times] :
            events = {Event(i, when[i][1], when[i][2]) : i \in ids}
    /\ nextId = MaxRows + 1
    /\ conversationHistory = <<>>
    /\ \E call \in CheckCalls :
         runs = [r \in RunIds |->
                   IF r = 1
                   THEN callModel(AgentState("agent", <<HumanMessage(1)>>, 1),
                                  AIMessage(1, [k \in 1..n |-> call]))
                   ELSE NotStarted]
    /\ faults = {}
    /\ NoRelated

NextCheck == \E r \in RunIds : \E k \in 1..MaxCalls : ToolReturns(r, k)

\* One call.
InitCheck == ChecksDispatched(1)

SpecCheck == InitCheck /\ [][NextCheck]_vars

\* The same call twice in one assistant message.
InitTwice == ChecksDispatched(2)

SpecTwice == InitTwice /\ [][NextCheck]_vars

\* ------------------------------------------------- the loop alone
\* One line on an empty table, answered by a model that may ask for the
\* same conflict check in every reply, without bound.
LoopCall == ToolCall("check_event_conflicts", Some(1), Some(1), NULL, NULL)

LoopRequests == {<<>>, <<LoopCall>>}

InitLoop ==
    /\ events = {}
    /\ nextId = 1
    /\ conversationHistory = <<>>
    /\ runs = [r \in RunIds |-> NotStarted]
    /\ faults = {}
    /\ NoRelated

ModelRepliesLoop(r) ==
    /\ runs[r].node = "agent"
    /\ \E calls \in LoopRequests : Reply(r, calls)
    /\ UNCHANGED <<events, nextId, faults, related>>

NextLoop ==
    \/ Line(1)
    \/ ModelRepliesLoop(1)
    \/ ModelFails(1)
    \/ \E k \in 1..MaxCalls : ToolReturns(1, k)

\* Every external call settles: the model call resolves or rejects, and
\* every tool call returns.
SpecLoop ==
    /\ InitLoop /\ [][NextLoop]_vars
    /\ WF_vars(ModelRepliesLoop(1) \/ ModelFails(1))
    /\ WF_vars(\E k \in 1..MaxCalls : ToolReturns(1, k))

\* ------------------------------------- events and what refers to them
\* One line, answered by a model that requests one operation at a time on
\* events, attendees and reminders, over any tables earlier sessions may
\* have left: every stored attendee and reminder refers to a stored event,
\* as the foreign keys have enforced.
RefEventIds == 1..(MaxEvents + 1)
RefIds == 1..(MaxRefs + 1)

RefCalls ==
    {ToolCall("create_event", Some(1), Some(1), NULL, NULL)}
    \cup {ToolCall("delete_event", NULL, NULL, Some(i), NULL) : i \in RefEventIds}
    \cup {RelatedCall("add_attendee", Some(i), NULL, NULL) : i \in RefEventIds}
    \cup {RelatedCall("remove_attendee", NULL, Some(a), NULL) : a \in RefIds}
    \cup {RelatedCall("create_reminder", Some(i), NULL, NULL) : i \in RefEventIds}
    \cup {RelatedCall("mark_reminder_sent", NULL, NULL, Some(m)) : m \in RefIds}

RefRequests(r) ==
    {<<>>} \cup (IF StepsTaken(r) < MaxOps THEN {<<c>> : c \in RefCalls} ELSE {})

InitRefs ==
    /\ \E ids \in SUBSET EventIds :
         /\ \E when \in [ids -> Times \X Times] :
               events = {Event(i, when[i][1], when[i][2]) : i \in ids}
         /\ \E as \in SUBSET (1..MaxRefs) : \E of \in [as -> ids] :
               attendees = {Attendee(a, of[a]) : a \in as}
         /\ \E ms \in SUBSET (1..MaxRefs) : \E of \in [ms -> ids \X BOOLEAN] :
               reminders = {Reminder(m, of[m][1], of[m][2]) : m \in ms}
    /\ nextId = MaxEvents + 1
    /\ nextAttendeeId = MaxRefs + 1
    /\ nextReminderId = MaxRefs + 1
    /\ conversationHistory = <<>>
    /\ runs = [r \in RunIds |-> NotStarted]
    /\ faults = {}

ModelRepliesRefs(r) ==
    /\ runs[r].node = "agent"
    /\ \E calls \in RefRequests(r) : Reply(r, calls)
    /\ UNCHANGED <<events, nextId, faults, related>>

NextRefs ==
    \/ Line(1)
    \/ ModelRepliesRefs(1)
    \/ \E k \in 1..MaxCalls : ToolReturns(1, k)

SpecRefs == InitRefs /\ [][NextRefs]_vars

\* ===================================================== the claims
\* The index of the last assistant message of a transcript, and its calls.
LastAI(messages) ==
    CHOOSE a \in 1..Len(messages) :
        /\ messages[a].role = "ai"
        /\ \A b \in (a + 1)..Len(messages) : messages[b].role # "ai"

Dispatched(state) == state.messages[LastAI(state.messages)].tool_calls

HasConflictCheck(calls) ==
    \E k \in 1..Len(calls) : calls[k].name = "check_event_conflicts"

\* The tools node has executed and no later node has appended a message.
ToolsJustRan(state) ==
    /\ state.node \in {"agent", "conflict_detector"}
    /\ Last(state.messages).role = "tool"

\* C1: after the tools node executes, the next node is conflict_detector if
\* and only if the calls just dispatched contained check_event_conflicts;
\* otherwise it is agent.
C1_RoutingAfterTools ==
    \A r \in RunIds :
        ToolsJustRan(runs[r]) =>
            /\ runs[r].node = "conflict_detector" <=> HasConflictCheck(Dispatched(runs[r]))
            /\ runs[r].node = "agent" <=> ~HasConflictCheck(Dispatched(runs[r]))

\* C2: when the tools node has dispatched a check_event_conflicts call (the
\* case in which the engine is to enter conflict_detector), pendingEventCheck
\* holds the start, end and exclusion id of that call's arguments.
C2_PendingPopulated ==
    \A r \in RunIds :
        (ToolsJustRan(runs[r]) /\ HasConflictCheck(Dispatched(runs[r]))) =>
            \E k \in 1..Len(Dispatched(runs[r])) :
                LET call == Dispatched(runs[r])[k]
                IN  /\ call.name = "check_event_conflicts"
                    /\ runs[r].pendingEventCheck =
                         Some([startTime |-> call.args.startTime[1],
                               endTime |-> call.args.endTime[1],
                               excludeEventId |-> call.args.excludeEventId])

\* C3: once a dispatched check_event_conflicts has been followed by the node
\* that precedes agent (conflict_detector has run to completion), the pending
\* request is null, conflictCheckResult holds the rendered text of the check,
\* and agent is next.
C3_ResultStored ==
    \A r \in RunIds :
        (/\ ToolsJustRan(runs[r])
         /\ HasConflictCheck(Dispatched(runs[r]))
         /\ runs[r].node = "agent") =>
            /\ runs[r].pendingEventCheck = NULL
            /\ runs[r].conflictCheckResult # NULL
            /\ \A k \in 1..Len(runs[r].conflictCheckResult) :
                  runs[r].conflictCheckResult[k].text \in
                      {"No conflicts found", "Found conflicting event(s)"}

\* C4: a run reaches END exactly from agent, on a message without tool calls;
\* a message agent produces leads to tools exactly when it carries one or
\* more; END is final.
C4_Termination ==
    [][\A r \in RunIds :
          /\ (runs[r].node # "END" /\ runs'[r].node = "END") =>
                /\ runs[r].node = "agent"
                /\ runs'[r].messages = runs[r].messages \o <<Last(runs'[r].messages)>>
                /\ Last(runs'[r].messages).role = "ai"
                /\ Last(runs'[r].messages).tool_calls = <<>>
          /\ (runs[r].node = "agent" /\ Len(runs'[r].messages) > Len(runs[r].messages)) =>
                /\ runs'[r].node = "END" <=> Len(Last(runs'[r].messages).tool_calls) = 0
                /\ runs'[r].node = "tools" <=> Len(Last(runs'[r].messages).tool_calls) > 0
          /\ runs[r].node = "END" => runs'[r] = runs[r]]_vars

\* A run that went through tools, came back to agent and then ended.
C4_Witness ==
    \E r \in RunIds :
        /\ runs[r].node = "END"
        /\ \E k \in 1..Len(runs[r].messages) :
              runs[r].messages[k].role = "tool" /\ runs[r].messages[k].turn = r

\* The call answered by the message at position j of a transcript (j may
\* lie past its end while the tools node is still collecting results).
CallAt(messages, j) ==
    LET a == CHOOSE a \in 1..Len(messages) :
                /\ a < j
                /\ messages[a].role = "ai"
                /\ \A b \in (a + 1)..Len(messages) : b < j => messages[b].role # "ai"
    IN  messages[a].tool_calls[j - a]

\* In this step, call k of run r's tools node returned; and what it returned.
ExecutedNow(r, k) ==
    /\ runs[r].node = "tools"
    /\ k \in 1..Len(runs[r].results)
    /\ runs[r].results[k] = NULL
    /\ runs'[r].node # "tools" \/ runs'[r].results[k] # NULL

ResultNow(r, k) ==
    IF runs'[r].node = "tools"
    THEN runs'[r].results[k][1]
    ELSE runs'[r].messages[Len(runs[r].messages) + k].content

CallNow(r, k) == Last(runs[r].messages).tool_calls[k]

Shown(content) == {content.events[i] : i \in 1..Len(content.events)}

C6_ExclusionHonoured ==
    [][\A r \in RunIds : \A k \in 1..MaxCalls :
          (/\ ExecutedNow(r, k)
           /\ CallNow(r, k).name = "check_event_conflicts"
           /\ CallNow(r, k).args.excludeEventId # NULL
           /\ ResultNow(r, k).text # "Error checking conflicts") =>
              LET s == CallNow(r, k).args.startTime[1]
                  e == CallNow(r, k).args.endTime[1]
                  x == CallNow(r, k).args.excludeEventId[1]
              IN  /\ \A E \in Shown(ResultNow(r, k)) : E.id # x
                  /\ \A E \in events :
                        (E.id # x /\ E.endTime >= s /\ E.startTime <= e) =>
                            E \in Shown(ResultNow(r, k))]_vars

\* A check that excluded a stored, overlapping event and reported another.
C6_Witness ==
    \E r \in RunIds : \E j \in 1..Len(runs[r].messages) :
        LET m == runs[r].messages[j]
        IN  /\ m.role = "tool" /\ m.name = "check_event_conflicts"
            /\ m.content.count >= 1
            /\ CallAt(runs[r].messages, j).args.excludeEventId # NULL
            /\ \E E \in events :
                  /\ E.id = CallAt(runs[r].messages, j).args.excludeEventId[1]
                  /\ E.endTime >= CallAt(runs[r].messages, j).args.startTime[1]
                  /\ E.startTime <= CallAt(runs[r].messages, j).args.endTime[1]
                  /\ E \notin Shown(m.content)

\* No two distinct stored events overlap, under the inclusive policy.
NoDoubleBooking ==
    \A A \in events : \A B \in events :
        A.id # B.id => ~(A.endTime >= B.startTime /\ A.startTime <= B.endTime)

\* C7: no step of the system (no create_event, no update_event) turns a
\* calendar without overlapping events into one with two that overlap.
C7_NoDoubleBooking == [][NoDoubleBooking => NoDoubleBooking']_vars

ErrorTexts ==
    {"Error checking conflicts", "Error creating event",
     "Error updating event", "Error deleting event"}

ToolFaults == {f \in faults : f.what = "tool"}
ModelFaults == {f \in faults : f.what = "model"}

\* What the failed call of a tool fault has returned.
FaultResult(f) ==
    LET st == runs[f.run]
    IN  IF Len(st.messages) >= f.at
        THEN st.messages[f.at].content
        ELSE st.results[f.at - Len(st.messages)][1]

\* C8: a tool call whose database statement fails yields an error text as
\* that call's result; the run is not aborted by it (a run fails only on a
\* failure of the model call), and when agent is next the error message is in
\* the transcript, at the call's position.
C8_ToolFailureNotFatal ==
    \A f \in ToolFaults :
        LET st == runs[f.run]
        IN  /\ st.node = "failed" => \E g \in ModelFaults : g.run = f.run
            /\ Len(st.messages) < f.at =>
                  st.node = "tools" /\ st.results[f.at - Len(st.messages)] # NULL
            /\ Len(st.messages) >= f.at =>
                  /\ st.messages[f.at].role = "tool"
                  /\ st.messages[f.at].name = CallAt(st.messages, f.at).name
            /\ FaultResult(f).text \in ErrorTexts

\* A failed tool call whose error message the next agent step is given.
C8_Witness ==
    \E f \in ToolFaults :
        /\ runs[f.run].node = "agent"
        /\ Len(runs[f.run].messages) >= f.at
        /\ runs[f.run].messages[f.at].content.text \in ErrorTexts

\* C9: a failure of the model call ends the run: its node is "failed" (the
\* line handler's catch has reported the error), no message was appended and
\* no node ran after the failure, and the REPL still takes the next line.
C9_ModelFailureEndsRun ==
    \A f \in ModelFaults :
        /\ runs[f.run].node = "failed"
        /\ Len(runs[f.run].messages) = f.at - 1
        /\ (\E t \in RunIds : runs[t].node = "idle") => ENABLED (\E t \in RunIds : Line(t))

\* The first run failed in the model call, and the next line's run completed.
C9_Witness ==
    /\ \E f \in ModelFaults : f.run = 1
    /\ runs[2].node = "END"

\* Tool faults that are failures of the select of a conflict check.
CheckFaults ==
    {f \in ToolFaults : CallAt(runs[f.run].messages, f.at).name = "check_event_conflicts"}

\* C10 as stated: a storage failure during conflict checking fails the run.
C10_StorageFailureFatal ==
    \A f \in CheckFaults : runs[f.run].node = "failed"

\* C10, amended: a storage failure during conflict checking is thrown by the
\* conflict subroutine and caught by the check_event_conflicts tool: the
\* call's result is the error text, with no conflict result, and the run does
\* not fail because of it.
C10_StorageFailureReported ==
    \A f \in CheckFaults :
        /\ FaultResult(f) = Content("Error checking conflicts", <<>>)
        /\ runs[f.run].node = "failed" => \E g \in ModelFaults : g.run = f.run

\* A conflict check whose select failed, in a run that went on to its end.
C10_Witness ==
    \E f \in CheckFaults :
        /\ runs[f.run].node = "END"
        /\ runs[f.run].messages[f.at].content.text = "Error checking conflicts"

\* The tool-result messages of run r that carry the result of a conflict
\* check whose select succeeded.
CheckResults(r) ==
    {j \in 1..Len(runs[r].messages) :
        /\ runs[r].messages[j].role = "tool"
        /\ runs[r].messages[j].name = "check_event_conflicts"
        /\ runs[r].messages[j].content.text # "Error checking conflicts"}

\* The request a check_event_conflicts call stands for, as pendingEventCheck
\* would hold it.
PendingFor(call) ==
    [startTime |-> call.args.startTime[1], endTime |-> call.args.endTime[1],
     excludeEventId |-> call.args.excludeEventId]

\* C11: for the start, end and exclusion id of a check_event_conflicts call
\* that has returned its message, the conflict_detector node given the same
\* request against the same table yields that same rendered message.
C11_PathsAgree ==
    \A r \in RunIds : \A j \in CheckResults(r) :
        LET p == PendingFor(CallAt(runs[r].messages, j))
        IN  \A o \in conflict_detector([runs[r] EXCEPT !.pendingEventCheck = Some(p)],
                                        events) :
               ~o.threw =>
                   o.value.conflictCheckResult = Some(runs[r].messages[j].content)

\* C12: two conflict checks with identical arguments against the same table
\* yield the same rendered message and the same conflicts.
C12_Idempotent ==
    \A r \in RunIds : \A i \in CheckResults(r) : \A j \in CheckResults(r) :
        CallAt(runs[r].messages, i) = CallAt(runs[r].messages, j) =>
            runs[r].messages[i].content = runs[r].messages[j].content

\* C13: in every step the transcript of every run is extended at its end and
\* otherwise unchanged; what a running run appends are its own messages: the
\* one message of the agent step, or the tool messages of the tools step in
\* the order of the calls they answer.
C13_AppendOnly ==
    [][\A r \in RunIds :
          LET old == runs[r].messages
              new == runs'[r].messages
          IN  /\ Len(new) >= Len(old)
              /\ SubSeq(new, 1, Len(old)) = old
              /\ runs[r].node # "idle" =>
                    \A j \in (Len(old) + 1)..Len(new) :
                        /\ new[j].turn = r
                        /\ runs[r].node = "agent" => new[j].role = "ai"
                        /\ runs[r].node = "tools" =>
                              /\ new[j].role = "tool"
                              /\ new[j].name = Last(old).tool_calls[j - Len(old)].name]_vars

\* The second line's run, started on a non-empty history, has been through
\* agent, tools and agent again.
C13_Witness ==
    /\ runs[2].node = "END"
    /\ runs[2].base > 1
    /\ Len(runs[2].messages) >= runs[2].base + 3

\* The runs whose app.invoke has been called and has neither resolved nor
\* rejected.
InFlight == {r \in RunIds : runs[r].node \in {"agent", "tools", "conflict_detector"}}

\* C14: at most one run is in flight at any time: a line submitted while a
\* run is in progress starts no second run.
C14_OneTurnInFlight == Cardinality(InFlight) <= 1

\* The requests pendingEventCheck could hold after a tools step: none, or
\* that of a check_event_conflicts call just dispatched.
Pendings(state) ==
    {NULL} \cup {Some(PendingFor(Dispatched(state)[k])) :
                    k \in {i \in 1..Len(Dispatched(state)) :
                              Dispatched(state)[i].name = "check_event_conflicts"}}

\* The scalar channels of a run's state.
Scalars(state) == <<state.pendingEventCheck, state.conflictCheckResult>>

\* C15: an agent step appends exactly one message, the assistant's, and
\* leaves the scalar fields alone (none when the model call fails); a tools
\* step appends nothing until its last call has returned, and then exactly
\* one tool message per call of the preceding assistant message; and the
\* conflict_detector node, applied to the state a tools step leaves with
\* any pending request of its calls, returns a state with the same messages
\* in which at most the two scalar fields differ.
C15_StepAppends ==
    [][\A r \in RunIds :
          LET old == runs[r].messages
              new == runs'[r].messages
              calls == Last(old).tool_calls
          IN  /\ (runs[r].node = "agent" /\ runs'[r].node \in {"tools", "END"}) =>
                    /\ new = old \o <<Last(new)>>
                    /\ Last(new).role = "ai"
                    /\ Scalars(runs'[r]) = Scalars(runs[r])
              /\ (runs[r].node = "agent" /\ runs'[r].node \notin {"tools", "END"}) =>
                    new = old
              /\ (runs[r].node = "tools" /\ runs'[r].node = "tools") => new = old
              /\ (runs[r].node = "tools" /\ runs'[r].node # "tools") =>
                    /\ Len(new) = Len(old) + Len(calls)
                    /\ SubSeq(new, 1, Len(old)) = old
                    /\ \A k \in 1..Len(calls) :
                          /\ new[Len(old) + k].role = "tool"
                          /\ new[Len(old) + k].name = calls[k].name
              /\ ToolsJustRan(runs'[r]) =>
                    \A p \in Pendings(runs'[r]) :
                        LET before == [runs'[r] EXCEPT !.pendingEventCheck = p]
                        IN  \A o \in conflict_detector(before, events') :
                               /\ o.value.messages = new
                               /\ o.value = [before EXCEPT
                                     !.pendingEventCheck = o.value.pendingEventCheck,
                                     !.conflictCheckResult = o.value.conflictCheckResult]]_vars

\* A tools step of two calls has completed: the transcript ends with the
\* assistant message and the two tool messages that answer it.
C15_Witness ==
    \E r \in RunIds :
        LET m == runs[r].messages
        IN  /\ runs[r].node = "agent"
            /\ Len(m) >= 3
            /\ m[Len(m)].role = "tool" /\ m[Len(m) - 1].role = "tool"
            /\ m[Len(m) - 2].role = "ai" /\ Len(m[Len(m) - 2].tool_calls) = 2

\* The stored events a check of call must report: those overlapping its
\* range, less the excluded one.
Expected(call) ==
    {E \in events :
        /\ E.endTime >= call.args.startTime[1]
        /\ E.startTime <= call.args.endTime[1]
        /\ (call.args.excludeEventId = NULL \/ E.id # call.args.excludeEventId[1])}

\* C16: the message a conflict check returns is the fixed no-conflicts text
\* when nothing conflicts (on an empty table: always); when n >= 1 events
\* conflict it is the found-text with count n and lists each of them exactly
\* once; and hasConflicts of the subroutine's result is true iff its
\* conflicts are non-empty, which are the events listed.
C16_Rendering ==
    \A r \in RunIds : \A j \in CheckResults(r) :
        LET m == runs[r].messages[j].content
            call == CallAt(runs[r].messages, j)
            n == Cardinality(Expected(call))
        IN  /\ n = 0 => m = [text |-> "No conflicts found", count |-> 0, events |-> <<>>]
            /\ n >= 1 =>
                  /\ m.text = "Found conflicting event(s)"
                  /\ m.count = n
                  /\ Len(m.events) = n
                  /\ Shown(m) = Expected(call)
            /\ \A o \in detectConflicts(events, call.args.startTime[1],
                                        call.args.endTime[1], call.args.excludeEventId) :
                  ~o.threw =>
                      /\ o.value.hasConflicts <=> Len(o.value.conflicts) > 0
                      /\ o.value.hasConflicts <=> n >= 1
                      /\ o.value.message.events = o.value.conflicts

\* A check that found two conflicting events and listed both.
C16_Witness ==
    \E r \in RunIds : \E j \in CheckResults(r) :
        /\ runs[r].messages[j].content.count = 2
        /\ Cardinality(Shown(runs[r].messages[j].content)) = 2

\* The run has started and its last message is an assistant message that
\* carries tool calls.
AsksForTools(state) ==
    /\ state.node # "idle"
    /\ Last(state.messages).role = "ai"
    /\ Len(Last(state.messages).tool_calls) > 0

Ended(state) == state.node \in {"END", "failed", "out_of_steps"}

HistoryBefore(r) == SubSeq(runs[r].messages, 1, runs[r].base - 1)

\* C18: at the step in which a run fails (its app.invoke rejects), the
\* conversation history is exactly what it was when the run's line handler
\* read it: nothing of the turn, its user message included, and nothing
\* else, has been appended.
C18_HistoryAsBefore ==
    [][\A r \in RunIds :
          (runs[r].node \in {"agent", "tools"}
              /\ runs'[r].node \in {"failed", "out_of_steps"}) =>
                conversationHistory' = HistoryBefore(r)]_vars

\* C19: at the step in which a run ends, no other turn having completed
\* since its line handler read the history, the history becomes the final
\* transcript of that run: the prior history, the user's message and the
\* messages appended during the turn, each once.
C19_HistoryIsTranscript ==
    [][\A r \in RunIds :
          (/\ runs[r].node # "END" /\ runs'[r].node = "END"
           /\ conversationHistory = HistoryBefore(r)) =>
              conversationHistory' = runs'[r].messages]_vars

\* The assistant message at position a of a transcript has, right after it,
\* one tool message per call it carries, in call order.
Answered(messages, a) ==
    LET calls == messages[a].tool_calls
    IN  /\ a + Len(calls) <= Len(messages)
        /\ \A k \in 1..Len(calls) :
              /\ messages[a + k].role = "tool"
              /\ messages[a + k].name = calls[k].name
              /\ messages[a + k].turn = messages[a].turn

\* C20: whenever agent is the node to run, every assistant message of the
\* transcript it is given, the most recent one in particular, has all its
\* tool calls answered.
C20_NoUnansweredCall ==
    \A r \in RunIds :
        runs[r].node = "agent" =>
            \A a \in 1..Len(runs[r].messages) :
                runs[r].messages[a].role = "ai" => Answered(runs[r].messages, a)

\* The second line's run, started on the first turn's history, is back at
\* agent after a tools step.
C20_Witness ==
    /\ runs[2].node = "agent"
    /\ runs[2].base > 1
    /\ Last(runs[2].messages).role = "tool"
    /\ \E a \in 1..(runs[2].base - 1) :
          runs[2].messages[a].role = "ai" /\ Len(runs[2].messages[a].tool_calls) > 0

\* C21: a step in which a check_event_conflicts call returns, whatever its
\* range and exclusion id, whether it found conflicts, none, or failed,
\* leaves the events table, every row and field of it, and the id sequence
\* as they were.
C21_PureRead ==
    [][\A r \in RunIds : \A k \in 1..MaxCalls :
          (ExecutedNow(r, k) /\ CallNow(r, k).name = "check_event_conflicts") =>
              /\ events' = events
              /\ nextId' = nextId]_vars

\* A check with an exclusion id has reported a conflict, over a table of
\* two rows.
C21_Witness ==
    \E r \in RunIds : \E j \in CheckResults(r) :
        /\ runs[r].messages[j].content.count = 1
        /\ CallAt(runs[r].messages, j).args.excludeEventId # NULL
        /\ Cardinality(events) = 2

\* Every stored attendee and every stored reminder refers to a stored event.
RefIntegrity ==
    /\ \A a \in attendees : \E E \in events : E.id = a.eventId
    /\ \A m \in reminders : \E E \in events : E.id = m.eventId

Tables == <<events, attendees, reminders>>

\* C22: after every step every stored attendee and reminder refers to a
\* stored event; a delete_event that succeeded leaves no attendee or
\* reminder of that event; and add_attendee or create_reminder for an id no
\* event has returns its error text and leaves the three tables unchanged.
C22_RefIntegrity ==
    [][/\ RefIntegrity'
       /\ \A r \in RunIds : \A k \in 1..MaxCalls :
             ExecutedNow(r, k) =>
                LET call == CallNow(r, k)
                    missing == ~\E E \in events : E.id = call.args.eventId[1]
                IN  /\ (/\ call.name = "delete_event"
                         /\ ResultNow(r, k).text = "Event deleted successfully") =>
                           /\ \A E \in events' : E.id # call.args.eventId[1]
                           /\ \A a \in attendees' : a.eventId # call.args.eventId[1]
                           /\ \A m \in reminders' : m.eventId # call.args.eventId[1]
                    /\ (call.name = "add_attendee" /\ missing) =>
                           /\ ResultNow(r, k).text = "Error adding attendee"
                           /\ Tables' = Tables
                    /\ (call.name = "create_reminder" /\ missing) =>
                           /\ ResultNow(r, k).text = "Error creating reminder"
                           /\ Tables' = Tables]_vars

\* An event that an attendee had been added to has been deleted.
C22_Witness ==
    \E r \in RunIds : \E i \in 1..Len(runs[r].messages) : \E j \in 1..Len(runs[r].messages) :
        /\ i < j
        /\ runs[r].messages[i].content.text = "Attendee added"
        /\ runs[r].messages[j].content.text = "Event deleted successfully"
        /\ CallAt(runs[r].messages, i).args.eventId = CallAt(runs[r].messages, j).args.eventId

====
